---------------------------- MODULE Spec2Model ----------------------------
(***************************************************************************)
(* Model of the wunderflat-explorer crawler (python_version/main.py and    *)
(* python_version/crawler.py).                                             *)
(*                                                                         *)
(* Strings are modelled as sequences of tokens.  A text is a sequence of   *)
(* word and whitespace tokens; a URL or an href is the sequence of its     *)
(* segments, i.e. the value of str.split("/").  Trimming, splitting and    *)
(* URL joining are computed on these sequences the way the Python code     *)
(* computes them on strings.                                               *)
(***************************************************************************)
EXTENDS Naturals, Sequences, FiniteSets, TLC

VARIABLES
    pc,                     \* position of the driver script (main.py)
    page_number,            \* main.py: page_number
    apartment_links,        \* main.py: apartment_links of the current page
    link_idx,               \* position of `for link in apartment_links`
    all_apartment_details,  \* main.py: all_apartment_details (accumulator)
    csvfile,                \* wunderflats_berlin.csv on disk
    trace,                  \* history: HTTP requests and sleeps issued so far
    crawled,                \* history: outcome of each crawl() call of the driver
    console,                \* last message main.py printed about the CSV file
    call_pc,                \* unit call of one crawler function: position
    call_url,               \* unit call: the url argument
    call_response,          \* unit call: what requests.get produced
    call_result             \* unit call: the returned value

vars == << pc, page_number, apartment_links, link_idx, all_apartment_details,
           csvfile, trace, crawled, console, call_pc, call_url, call_response,
           call_result >>

driver_vars == << pc, page_number, apartment_links, link_idx,
                  all_apartment_details, csvfile, trace, crawled, console >>

call_vars == << call_pc, call_url, call_response, call_result >>

---------------------------------------------------------------------------
(* Bounds of the model *)

MaxPages == 2        \* search pages of the site that may still list links
MaxAnchors == 3      \* anchors on one search page
MaxTextLen == 3      \* tokens in one text node
MaxSpans == 2        \* spans nested in one block of a detail page

---------------------------------------------------------------------------
(* Python string and list helpers *)

Whitespace == {" ", "\n"}

Range(s) == {s[i] : i \in 1..Len(s)}

\* all sequences over S of length at most n
SeqsUpTo(S, n) == UNION {[1..k -> S] : k \in 0..n}

RECURSIVE lstrip(_)
lstrip(s) ==
    IF s # <<>> /\ Head(s) \in Whitespace THEN lstrip(Tail(s)) ELSE s

RECURSIVE rstrip(_)
rstrip(s) ==
    IF s # <<>> /\ s[Len(s)] \in Whitespace
    THEN rstrip(SubSeq(s, 1, Len(s) - 1))
    ELSE s

\* str.strip()
strip(s) == rstrip(lstrip(s))

\* str.split(sep): the list of the pieces between the separators
RECURSIVE split(_, _)
split(s, sep) ==
    IF \E i \in 1..Len(s) : s[i] = sep
    THEN LET i == CHOOSE j \in 1..Len(s) :
                      s[j] = sep /\ \A k \in 1..(j - 1) : s[k] # sep
         IN  << SubSeq(s, 1, i - 1) >> \o split(SubSeq(s, i + 1, Len(s)), sep)
    ELSE << s >>

\* `needle in text`
contains(text, needle) == \E i \in 1..Len(text) : text[i] = needle

\* `x in list`
member(x, list) == \E i \in 1..Len(list) : list[i] = x

---------------------------------------------------------------------------
(* HTTP: requests.get(url, timeout=10, headers=headers) and                *)
(* response.raise_for_status()                                             *)

\* requests.get raises a RequestException when no response arrives in time
TransportErrors == {"Timeout", "ConnectionError"}

StatusCodes == {200, 404, 500}

\* mutant: only a 5xx status raises
raise_for_status_5xx(response) == response.status_code >= 500

\* raise_for_status() raises HTTPError for a 4xx or 5xx status
raise_for_status(response) == response.status_code >= 400

\* the try block is left through `except requests.exceptions.RequestException`
request_raises(response) ==
    response.exc \in TransportErrors \/ raise_for_status(response)

---------------------------------------------------------------------------
(* crawler.crawl *)

SITE == << "https:", "", "wunderflats.com" >>

\* href.startswith("/en/furnished-apartment/")
is_listing_href(href) ==
    /\ Len(href) >= 4
    /\ href[1] = ""
    /\ href[2] = "en"
    /\ href[3] = "furnished-apartment"

\* urllib: the dot segments of a path are removed
RECURSIVE remove_dot_segments(_, _)
remove_dot_segments(segments, resolved_path) ==
    IF segments = <<>> THEN resolved_path
    ELSE LET seg == Head(segments) IN
         IF seg = ".."
         THEN remove_dot_segments(Tail(segments),
                  IF resolved_path = <<>> THEN <<>>
                  ELSE SubSeq(resolved_path, 1, Len(resolved_path) - 1))
         ELSE IF seg = "."
         THEN remove_dot_segments(Tail(segments), resolved_path)
         ELSE remove_dot_segments(Tail(segments), Append(resolved_path, seg))

\* urljoin(url, href) for an href that is an absolute path: scheme and host
\* of url, then the href's path without its dot segments
urljoin(url, href) ==
    LET resolved == remove_dot_segments(href, <<>>)
        closed == IF href[Len(href)] \in {".", ".."}
                  THEN Append(resolved, "") ELSE resolved
        path == IF closed = <<>> \/ closed = << "" >> THEN << "", "" >>
                ELSE IF Head(closed) # "" THEN << "" >> \o closed
                ELSE closed
    IN  SubSeq(url, 1, 3) \o Tail(path)

\* mutant: the `not in apartment_links` test is dropped
crawl_step_no_dedup(url, href, links) ==
    IF is_listing_href(href) THEN Append(links, urljoin(url, href)) ELSE links

\* the body of `for link in listing_links`
crawl_step(url, href, links) ==
    IF is_listing_href(href)
    THEN LET full_url == urljoin(url, href) IN
         IF ~member(full_url, links) THEN Append(links, full_url) ELSE links
    ELSE links

RECURSIVE crawl_loop(_, _, _)
crawl_loop(url, listing_links, links) ==
    IF listing_links = <<>> THEN links
    ELSE crawl_loop(url, Tail(listing_links),
                    crawl_step(url, Head(listing_links), links))

\* mutant: the body is parsed whatever the outcome of the request
crawl_unchecked(url, response) == crawl_loop(url, response.soup, <<>>)

\* crawl(url): response is what requests.get(url) produced; response.soup is
\* soup.find_all("a", href=True) as the sequence of the anchors' hrefs
crawl(url, response) ==
    IF request_raises(response) THEN <<>>
    ELSE crawl_loop(url, response.soup, <<>>)

---------------------------------------------------------------------------
(* Python dict (insertion ordered): a sequence of <<key, value>> pairs *)

dict_has(d, k) == \E i \in 1..Len(d) : d[i][1] = k

dict_get(d, k) == d[CHOOSE i \in 1..Len(d) : d[i][1] = k][2]

\* d[k] = v: an existing key keeps its position, a new key goes last
dict_set(d, k, v) ==
    IF dict_has(d, k)
    THEN [i \in 1..Len(d) |-> IF d[i][1] = k THEN << k, v >> ELSE d[i]]
    ELSE Append(d, << k, v >>)

\* list(d.keys())
dict_keys(d) == [i \in 1..Len(d) |-> d[i][1]]

---------------------------------------------------------------------------
(* BeautifulSoup: a tag that soup.find(...) returned, or None.  The soup   *)
(* of a detail page is the record of what each find(...) of                *)
(* extract_apartment_details returns on it; a block holds the texts of the *)
(* spans nested in it, in document order.                                  *)

None == [found |-> FALSE, text |-> <<>>]

NoBlock == [found |-> FALSE, spans |-> <<>>]

\* tag.find("span"): the first nested span, or None
find_span(spans) ==
    IF spans = <<>> THEN None ELSE [found |-> TRUE, text |-> Head(spans)]

NOT_FOUND == << "Not Found" >>

NOT_IMPLEMENTED == << "Not implemented" >>

DESCRIPTION_NOT_FOUND == << "Description section not found (using generic selector)" >>

PER_MONTH == "per month"

FALLBACK_SUFFIX == << " (fallback)" >>

---------------------------------------------------------------------------
(* crawler.extract_apartment_details *)

\* Title (h2 with specific class)
extract_title(soup, details) ==
    IF soup.title_tag.found
    THEN dict_set(details, "title", strip(soup.title_tag.text))
    ELSE details

\* mutant: the basic div is consulted before the data-testid span
extract_address_div_first(soup, details) ==
    IF soup.basic_div.found /\ find_span(soup.basic_div.spans).found
    THEN dict_set(details, "address",
             strip(find_span(soup.basic_div.spans).text) \o FALLBACK_SUFFIX)
    ELSE IF soup.address_tag.found
    THEN dict_set(details, "address", strip(soup.address_tag.text))
    ELSE details

\* Address (span with data-testid), else the first span of the basic div
extract_address(soup, details) ==
    IF soup.address_tag.found
    THEN dict_set(details, "address", strip(soup.address_tag.text))
    ELSE IF soup.basic_div.found
    THEN IF find_span(soup.basic_div.spans).found
         THEN dict_set(details, "address",
                  strip(find_span(soup.basic_div.spans).text) \o FALLBACK_SUFFIX)
         ELSE details
    ELSE details

\* mutant: the part before the comma is stored untrimmed
extract_size_untrimmed(stats_container, details) ==
    LET size_span == stats_container.size_span IN
    IF size_span.found /\ find_span(size_span.spans).found
    THEN dict_set(details, "size",
             split(strip(find_span(size_span.spans).text), ",")[1])
    ELSE details

\* Size (within stats)
extract_size(stats_container, details) ==
    LET size_span == stats_container.size_span IN
    IF size_span.found /\ find_span(size_span.spans).found
    THEN LET size_text_parts ==
                 split(strip(find_span(size_span.spans).text), ",")
         IN  IF size_text_parts # <<>>
             THEN dict_set(details, "size", strip(size_text_parts[1]))
             ELSE details
    ELSE details

\* Rooms (within stats)
extract_rooms(stats_container, details) ==
    LET rooms_span == stats_container.rooms_span IN
    IF rooms_span.found /\ find_span(rooms_span.spans).found
    THEN dict_set(details, "rooms", strip(find_span(rooms_span.spans).text))
    ELSE details

\* Stats Container
extract_stats(soup, details) ==
    IF soup.stats_container.found
    THEN extract_rooms(soup.stats_container,
             extract_size(soup.stats_container, details))
    ELSE details

\* mutant: the unit is looked for among all the spans of the wrapper
extract_price_any_span(soup, details) ==
    IF soup.price_wrapper.found
    THEN LET price_value_tag == soup.price_wrapper.price_value_tag
             spans == soup.price_wrapper.spans
             units == {i \in 1..Len(spans) : contains(spans[i], PER_MONTH)}
         IN  IF price_value_tag.found /\ units # {}
             THEN dict_set(details, "price",
                      strip(price_value_tag.text) \o << " " >>
                          \o strip(spans[CHOOSE i \in units :
                                            \A k \in units : i <= k]))
             ELSE IF price_value_tag.found
             THEN dict_set(details, "price", strip(price_value_tag.text))
             ELSE details
    ELSE details

\* Price
extract_price(soup, details) ==
    IF soup.price_wrapper.found
    THEN LET price_value_tag == soup.price_wrapper.price_value_tag
             price_unit_tag == find_span(soup.price_wrapper.spans)
         IN  IF /\ price_value_tag.found
                /\ price_unit_tag.found
                /\ contains(price_unit_tag.text, PER_MONTH)
             THEN dict_set(details, "price",
                      strip(price_value_tag.text) \o << " " >>
                          \o strip(price_unit_tag.text))
             ELSE IF price_value_tag.found
             THEN dict_set(details, "price", strip(price_value_tag.text))
             ELSE details
    ELSE details

\* mutant: without the else branch the description keeps the generic default
extract_description_no_else(soup, details) ==
    IF soup.desc_tag.found
    THEN dict_set(details, "description", strip(soup.desc_tag.text))
    ELSE details

\* Description
extract_description(soup, details) ==
    IF soup.desc_tag.found
    THEN dict_set(details, "description", strip(soup.desc_tag.text))
    ELSE dict_set(details, "description", DESCRIPTION_NOT_FOUND)

\* details = {...}: the record every call starts from
initial_details(url) ==
    << << "url", url >>,
       << "title", NOT_FOUND >>,
       << "price", NOT_FOUND >>,
       << "size", NOT_FOUND >>,
       << "rooms", NOT_FOUND >>,
       << "address", NOT_FOUND >>,
       << "description", NOT_FOUND >>,
       << "availability", NOT_IMPLEMENTED >> >>

\* the try block after a successful fetch
extract_fields(soup, details) ==
    extract_description(soup,
        extract_price(soup,
            extract_stats(soup,
                extract_address(soup,
                    extract_title(soup, details)))))

\* extract_apartment_details(url): response is what requests.get(url) produced
extract_apartment_details(url, response) ==
    IF request_raises(response) THEN initial_details(url)
    ELSE extract_fields(response.soup, initial_details(url))

---------------------------------------------------------------------------
(* main.py: URL template *)

SEARCH_QUERY == "?from=2025-07-01&to=2025-09-30&flexibleDays=14&scoreVariant=B&minRooms=3&homeType=ENTIRE_APARTMENT&minSize=60"

\* base_url_template.format(page_num=page_number)
page_url(n) ==
    SITE \o << "en", "furnished-apartments", "berlin", ToString(n), SEARCH_QUERY >>

---------------------------------------------------------------------------
(* main.py: the driver *)

PER_LINK_PAUSE_MS == 500

PER_PAGE_PAUSE_MS == 1000

CSV_SAVED == "Successfully saved results to CSV."

CSV_ERROR == "Error writing to CSV file"

CSV_SKIPPED == "No apartment details collected, CSV file not created."

\* requests.get(url, ...) as an entry of the history
http_get(url) == [op |-> "GET", url |-> url, ms |-> 0]

\* time.sleep(ms / 1000) as an entry of the history
sleep(ms) == [op |-> "sleep", url |-> <<>>, ms |-> ms]

\* mutant: the loop is also left on a page with a single link
loop_break_single(links) == Len(links) <= 1

\* `if not apartment_links: break`
loop_break(links) == links = <<>>

\* mutant: no pause before a detail fetch
link_pause_none == <<>>

\* time.sleep(0.5) before each detail fetch
link_pause == << sleep(PER_LINK_PAUSE_MS) >>

\* time.sleep(1) after the links of a page
page_pause == << sleep(PER_PAGE_PAUSE_MS) >>

\* mutant: a record without a title is dropped
accumulate_titled(acc, details) ==
    IF details # <<>> /\ dict_get(details, "title") # NOT_FOUND
    THEN Append(acc, details) ELSE acc

\* `if details: all_apartment_details.append(details)`
accumulate(acc, details) ==
    IF details # <<>> THEN Append(acc, details) ELSE acc

\* page_number += 1
next_page_number(n) == n + 1

\* csv.DictWriter(csvfile, fieldnames=headers): writeheader(), writerows(...)
csv_rows(records) ==
    LET headers == dict_keys(records[1]) IN
    << headers >>
    \o [i \in 1..Len(records) |->
           [j \in 1..Len(headers) |-> dict_get(records[i], headers[j])]]

---------------------------------------------------------------------------
(* Inputs: search pages *)

Hrefs ==
    { << "", "en", "furnished-apartment", "a" >>,
      << "", "en", "furnished-apartment", "b" >>,
      << "", "en", "furnished-apartment", "a", "..", "b" >>,
      << "", "en", "furnished-apartment", ".", "a" >>,
      << "", "en", "furnished-apartment", "" >>,
      << "", "en", "furnished-apartments", "berlin", "2" >>,
      << "en", "furnished-apartment", "a" >>,
      << "", "de", "furnished-apartment", "a" >>,
      << "#top" >> }

NoResponseBody == <<>>

SearchResponses(hrefs, n) ==
    {[exc |-> e, status_code |-> 0, soup |-> NoResponseBody] : e \in TransportErrors}
    \cup {[exc |-> "none", status_code |-> c, soup |-> a] :
             c \in StatusCodes, a \in SeqsUpTo(hrefs, n)}

---------------------------------------------------------------------------
(* Inputs: detail pages *)

Texts(alphabet) == SeqsUpTo(alphabet, MaxTextLen)

Tags(texts) == {None} \cup {[found |-> TRUE, text |-> t] : t \in texts}

Blocks(texts, n) ==
    {NoBlock} \cup {[found |-> TRUE, spans |-> s] : s \in SeqsUpTo(texts, n)}

WordTexts == Texts({" ", "w"})

SizeTexts == Texts({" ", "98", ","})

AddressSpanTexts == { << "Berlin" >>, << " ", "Berlin", " " >>, <<>> }

PriceSpanTexts ==
    { << PER_MONTH >>, << " ", "incl.", " ", PER_MONTH, " " >>, << "from" >>, <<>> }

\* a page without any of the targeted markup
EmptyPage ==
    [ title_tag |-> None,
      address_tag |-> None,
      basic_div |-> NoBlock,
      stats_container |-> [found |-> FALSE, size_span |-> NoBlock, rooms_span |-> NoBlock],
      price_wrapper |-> [found |-> FALSE, price_value_tag |-> None, spans |-> <<>>],
      desc_tag |-> None ]

\* a page with all of the targeted markup
FullPage ==
    [ title_tag |-> [found |-> TRUE, text |-> << "w" >>],
      address_tag |-> [found |-> TRUE, text |-> << "w" >>],
      basic_div |-> [found |-> TRUE, spans |-> << << "Berlin" >> >>],
      stats_container |->
          [found |-> TRUE,
           size_span |-> [found |-> TRUE, spans |-> << << "98", ",", "98" >> >>],
           rooms_span |-> [found |-> TRUE, spans |-> << << "w" >> >>]],
      price_wrapper |->
          [found |-> TRUE,
           price_value_tag |-> [found |-> TRUE, text |-> << "w" >>],
           spans |-> << << PER_MONTH >> >>],
      desc_tag |-> [found |-> TRUE, text |-> << "w" >>] ]

BasePages == {EmptyPage, FullPage}

StatsContainers ==
    {[found |-> FALSE, size_span |-> NoBlock, rooms_span |-> NoBlock]}
    \cup {[found |-> TRUE, size_span |-> s, rooms_span |-> r] :
             s \in Blocks(SizeTexts, 1), r \in Blocks(WordTexts, 1)}

PriceWrappers ==
    {[found |-> FALSE, price_value_tag |-> None, spans |-> <<>>]}
    \cup {[found |-> TRUE, price_value_tag |-> v, spans |-> s] :
             v \in Tags(WordTexts), s \in SeqsUpTo(PriceSpanTexts, MaxSpans)}

\* the base pages, each with one section replaced by every bounded variant
DetailPages ==
    {[p EXCEPT !.title_tag = t] : p \in BasePages, t \in Tags(WordTexts)}
    \cup {[p EXCEPT !.address_tag = a, !.basic_div = b] :
             p \in BasePages, a \in Tags(WordTexts),
             b \in Blocks(AddressSpanTexts, MaxSpans)}
    \cup {[p EXCEPT !.stats_container = s] : p \in BasePages, s \in StatsContainers}
    \cup {[p EXCEPT !.price_wrapper = w] : p \in BasePages, w \in PriceWrappers}
    \cup {[p EXCEPT !.desc_tag = t] : p \in BasePages, t \in Tags(WordTexts)}

DetailResponses(pages) ==
    {[exc |-> e, status_code |-> 0, soup |-> EmptyPage] : e \in TransportErrors}
    \cup {[exc |-> "none", status_code |-> c, soup |-> p] :
             c \in StatusCodes \ {200}, p \in BasePages}
    \cup {[exc |-> "none", status_code |-> 200, soup |-> p] : p \in pages}

ListingUrls ==
    {urljoin(page_url(1), h) : h \in {x \in Hrefs : is_listing_href(x)}}

---------------------------------------------------------------------------
(* Inputs of the driver: what the site answers *)

DriverHrefs ==
    { << "", "en", "furnished-apartment", "a" >>,
      << "", "en", "furnished-apartment", "b" >>,
      << "", "en", "furnished-apartments", "berlin", "2" >> }

lists_nothing(response) ==
    \A i \in 1..Len(response.soup) : ~is_listing_href(response.soup[i])

\* the site lists apartments on its first MaxPages search pages at most
SiteSearchResponses(n) ==
    IF n <= MaxPages
    THEN SearchResponses(DriverHrefs, MaxAnchors)
    ELSE {r \in SearchResponses(DriverHrefs, MaxAnchors) : lists_nothing(r)}

\* a detail request fails, or is answered with a page
SiteDetailResponses == DetailResponses({FullPage})

---------------------------------------------------------------------------
(* The driver script *)

Init ==
    /\ pc = "crawl"
    /\ page_number = 1
    /\ apartment_links = <<>>
    /\ link_idx = 1
    /\ all_apartment_details = <<>>
    /\ csvfile = [exists |-> FALSE, rows |-> <<>>]
    /\ trace = <<>>
    /\ crawled = <<>>
    /\ console = ""
    /\ call_pc = "unused"
    /\ call_url = <<>>
    /\ call_response = <<>>
    /\ call_result = <<>>

\* top of `while True`: crawl the current search page, leave on no links
CrawlPage ==
    /\ pc = "crawl"
    /\ \E response \in SiteSearchResponses(page_number) :
          LET links == crawl(page_url(page_number), response) IN
          /\ apartment_links' = links
          /\ crawled' = Append(crawled,
                 [exc |-> response.exc, status_code |-> response.status_code,
                  links |-> links])
          /\ trace' = Append(trace, http_get(page_url(page_number)))
          /\ pc' = IF loop_break(links) THEN "save" ELSE "links"
    /\ link_idx' = 1
    /\ UNCHANGED << page_number, all_apartment_details, csvfile, console, call_vars >>

\* one iteration of `for link in apartment_links`
FetchDetail ==
    /\ pc = "links"
    /\ link_idx <= Len(apartment_links)
    /\ \E response \in SiteDetailResponses :
          LET link == apartment_links[link_idx]
              details == extract_apartment_details(link, response)
          IN  /\ trace' = trace \o link_pause \o << http_get(link) >>
              /\ all_apartment_details' = accumulate(all_apartment_details, details)
    /\ link_idx' = link_idx + 1
    /\ UNCHANGED << pc, page_number, apartment_links, csvfile, crawled, console,
                    call_vars >>

\* after the for loop: next page number, pause, back to the top
NextPage ==
    /\ pc = "links"
    /\ link_idx > Len(apartment_links)
    /\ page_number' = next_page_number(page_number)
    /\ trace' = trace \o page_pause
    /\ pc' = "crawl"
    /\ UNCHANGED << apartment_links, link_idx, all_apartment_details, csvfile,
                    crawled, console, call_vars >>

\* Save to CSV
SaveCsv ==
    /\ pc = "save"
    /\ \/ /\ all_apartment_details # <<>>
          /\ csvfile' = [exists |-> TRUE, rows |-> csv_rows(all_apartment_details)]
          /\ console' = CSV_SAVED
       \/ /\ all_apartment_details # <<>>
          \* open() raised: nothing was written
          /\ csvfile' = csvfile
          /\ console' = CSV_ERROR
       \/ /\ all_apartment_details # <<>>
          \* a write raised: the file holds some of the rows
          /\ \E n \in 0..Len(csv_rows(all_apartment_details)) :
                csvfile' = [exists |-> TRUE,
                            rows |-> SubSeq(csv_rows(all_apartment_details), 1, n)]
          /\ console' = CSV_ERROR
       \/ /\ all_apartment_details = <<>>
          /\ csvfile' = csvfile
          /\ console' = CSV_SKIPPED
    /\ pc' = "done"
    /\ UNCHANGED << page_number, apartment_links, link_idx, all_apartment_details,
                    trace, crawled, call_vars >>

Next == CrawlPage \/ FetchDetail \/ NextPage \/ SaveCsv

Spec == Init /\ [][Next]_vars

---------------------------------------------------------------------------
(* Unit specification of crawl: one call on every bounded input *)

DriverIdle ==
    /\ pc = "idle"
    /\ page_number = 1
    /\ apartment_links = <<>>
    /\ link_idx = 1
    /\ all_apartment_details = <<>>
    /\ csvfile = [exists |-> FALSE, rows |-> <<>>]
    /\ trace = <<>>
    /\ crawled = <<>>
    /\ console = ""

InitCrawl ==
    /\ DriverIdle
    /\ call_pc = "called"
    /\ call_url \in {page_url(n) : n \in 1..MaxPages}
    /\ call_response \in SearchResponses(Hrefs, MaxAnchors)
    /\ call_result = <<>>

CallCrawl ==
    /\ call_pc = "called"
    /\ call_result' = crawl(call_url, call_response)
    /\ call_pc' = "returned"
    /\ UNCHANGED << call_url, call_response, driver_vars >>

SpecCrawl == InitCrawl /\ [][CallCrawl]_vars

---------------------------------------------------------------------------
(* Unit specification of extract_apartment_details: one call on every      *)
(* bounded input                                                           *)

InitExtract ==
    /\ DriverIdle
    /\ call_pc = "called"
    /\ call_url \in ListingUrls
    /\ call_response \in DetailResponses(DetailPages)
    /\ call_result = <<>>

CallExtract ==
    /\ call_pc = "called"
    /\ call_result' = extract_apartment_details(call_url, call_response)
    /\ call_pc' = "returned"
    /\ UNCHANGED << call_url, call_response, driver_vars >>

SpecExtract == InitExtract /\ [][CallExtract]_vars

---------------------------------------------------------------------------
(* Properties of the driver (checked under Spec) *)

IsSearchGet(e) ==
    e.op = "GET" /\ \E n \in 1..(MaxPages + 2) : e.url = page_url(n)

IsDetailGet(e) == e.op = "GET" /\ ~IsSearchGet(e)

LoopLeft == pc \in {"save", "done"}

FIELD_NAMES ==
    << "url", "title", "price", "size", "rooms", "address", "description",
       "availability" >>

AllDefaultRecord(url) ==
    << << "url", url >>, << "title", << "Not Found" >> >>,
       << "price", << "Not Found" >> >>, << "size", << "Not Found" >> >>,
       << "rooms", << "Not Found" >> >>, << "address", << "Not Found" >> >>,
       << "description", << "Not Found" >> >>,
       << "availability", << "Not implemented" >> >> >>

\* the links the crawl calls returned, in page order then discovery order
RECURSIVE LinksOf(_)
LinksOf(history) ==
    IF history = <<>> THEN <<>>
    ELSE Head(history).links \o LinksOf(Tail(history))

\* one record per returned link, in order, each with the eight fields
OneRecordPerLink ==
    /\ Len(all_apartment_details) = Len(LinksOf(crawled))
    /\ \A i \in 1..Len(all_apartment_details) :
          /\ dict_keys(all_apartment_details[i]) = FIELD_NAMES
          /\ dict_get(all_apartment_details[i], "url") = LinksOf(crawled)[i]

\* the header row, then one row per record with the values in header order
HeaderAndRows(records) ==
    << FIELD_NAMES >>
    \o [i \in 1..Len(records) |->
           [j \in 1..Len(FIELD_NAMES) |-> dict_get(records[i], FIELD_NAMES[j])]]

FileHoldsAllRecords ==
    /\ csvfile.exists
    /\ Len(csvfile.rows) = Len(all_apartment_details) + 1
    /\ csvfile.rows = HeaderAndRows(all_apartment_details)

\* C1: the search pages are requested as 1, 2, 3, ... in order, each once;
\* the loop is left exactly at the first page whose crawl returns no link,
\* it goes on to page j+1 after every page j that returned a link, and no
\* page is requested after the loop is left.
C1_PagesInOrderUntilFirstEmpty ==
    LET gets == SelectSeq(trace, IsSearchGet)
        k == Len(crawled)
    IN  /\ Len(gets) = k
        /\ \A i \in 1..k : gets[i].url = page_url(i)
        /\ \A j \in 1..k : j < k => crawled[j].links # <<>>
        /\ LoopLeft <=> (k >= 1 /\ crawled[k].links = <<>>)
        /\ pc = "crawl" => page_number = k + 1
        /\ pc = "links" => page_number = k /\ apartment_links = crawled[k].links

\* C1 witness: the loop was left at page 3, after two pages that listed links
C1_Witness ==
    /\ pc = "done"
    /\ Len(crawled) = 3
    /\ crawled[1].links # <<>> /\ crawled[2].links # <<>>
    /\ crawled[3].links = <<>>

CrawlFailed(c) == c.exc \in {"Timeout", "ConnectionError"} \/ c.status_code >= 400

C10_PauseBeforeEveryRequest ==
    /\ \A i \in 1..Len(trace) :
          /\ IsDetailGet(trace[i]) =>
                i > 1 /\ trace[i - 1] = sleep(PER_LINK_PAUSE_MS)
          /\ IsSearchGet(trace[i]) =>
                \/ i = 1
                \/ /\ i > 2
                   /\ trace[i - 1] = sleep(PER_PAGE_PAUSE_MS)
                   /\ IsDetailGet(trace[i - 2])
          /\ trace[i] = sleep(PER_PAGE_PAUSE_MS) =>
                i > 1 /\ IsDetailGet(trace[i - 1])
          /\ (i > 1 /\ trace[i].op = "GET") => trace[i - 1].op = "sleep"
    /\ trace # <<>> => trace[1] = http_get(page_url(1))
    /\ LoopLeft => IsSearchGet(trace[Len(trace)])
    /\ Cardinality({i \in 1..Len(trace) : trace[i] = sleep(PER_PAGE_PAUSE_MS)})
           = Cardinality({j \in 1..Len(crawled) : crawled[j].links # <<>>})
               - (IF pc = "links" THEN 1 ELSE 0)

\* C10 witness: a finished run over two pages with links
C10_Witness ==
    /\ pc = "done"
    /\ Len(crawled) = 3
    /\ Len(crawled[1].links) = 2
    /\ Cardinality({i \in 1..Len(trace) : trace[i] = sleep(PER_PAGE_PAUSE_MS)}) = 2

---------------------------------------------------------------------------
(* Properties of crawl (checked under SpecCrawl) *)

Returned == call_pc = "returned"

\* the request neither timed out nor was answered with an error status
FetchedOk ==
    call_response.exc = "none" /\ call_response.status_code \in 200..299

\* C3: the links of one crawl call hold no duplicate, are exactly the
\* absolute URLs of the anchors whose href starts with the listing prefix,
\* and are ordered by the first anchor that resolves to each of them.
C3_LinksAreUniqueListingUrlsInFirstSeenOrder ==
    (Returned /\ FetchedOk) =>
        LET anchors == call_response.soup
            listing == {i \in 1..Len(anchors) : is_listing_href(anchors[i])}
            resolved(i) == urljoin(call_url, anchors[i])
            first_seen(u) ==
                CHOOSE i \in listing :
                    /\ resolved(i) = u
                    /\ \A k \in listing : k < i => resolved(k) # u
        IN  /\ \A i, j \in 1..Len(call_result) :
                  i # j => call_result[i] # call_result[j]
            /\ Range(call_result) = {resolved(i) : i \in listing}
            /\ \A i, j \in 1..Len(call_result) :
                  i < j => first_seen(call_result[i]) < first_seen(call_result[j])

\* C3 witness: /en/furnished-apartment/a/../b and /en/furnished-apartment/b
\* name one listing, found before /en/furnished-apartment/a
C3_Witness ==
    /\ Returned /\ FetchedOk
    /\ call_response.soup =
           << << "", "en", "furnished-apartment", "a", "..", "b" >>,
              << "", "en", "furnished-apartment", "b" >>,
              << "", "en", "furnished-apartment", "a" >> >>
    /\ call_result =
           << << "https:", "", "wunderflats.com", "en", "furnished-apartment", "b" >>,
              << "https:", "", "wunderflats.com", "en", "furnished-apartment", "a" >> >>

---------------------------------------------------------------------------
(* Properties of extract_apartment_details (checked under SpecExtract) *)

FetchFailed ==
    \/ call_response.exc \in {"Timeout", "ConnectionError"}
    \/ call_response.status_code \in 400..599

Field(name) == dict_get(call_result, name)

NoTargetedMarkup(soup) ==
    /\ ~soup.title_tag.found
    /\ ~soup.address_tag.found
    /\ ~soup.basic_div.found \/ soup.basic_div.spans = <<>>
    /\ \/ ~soup.stats_container.found
       \/ /\ ~soup.stats_container.size_span.found
             \/ soup.stats_container.size_span.spans = <<>>
          /\ ~soup.stats_container.rooms_span.found
             \/ soup.stats_container.rooms_span.spans = <<>>
    /\ ~soup.price_wrapper.found \/ ~soup.price_wrapper.price_value_tag.found
    /\ ~soup.desc_tag.found

\* C5: a fetched page without the targeted markup gives "Not Found" for
\* title, price, size, rooms and address and the longer fallback text for
\* the description; availability is "Not implemented" and url the requested
\* URL on every page.
C5_PageWithoutMarkupGivesDefaults ==
    Returned =>
        /\ Field("availability") = << "Not implemented" >>
        /\ Field("url") = call_url
        /\ dict_keys(call_result) = FIELD_NAMES
        /\ (FetchedOk /\ NoTargetedMarkup(call_response.soup)) =>
              /\ \A f \in {"title", "price", "size", "rooms", "address"} :
                    Field(f) = << "Not Found" >>
              /\ Field("description")
                     = << "Description section not found (using generic selector)" >>
              /\ Field("description") # << "Not Found" >>

\* C5 witness: a fetched page whose containers are present but empty
C5_Witness ==
    /\ Returned /\ FetchedOk
    /\ NoTargetedMarkup(call_response.soup)
    /\ call_response.soup.price_wrapper.found
    /\ call_response.soup.price_wrapper.spans # <<>>
    /\ Field("description") # << "Not Found" >>

\* the spans of the price wrapper that contain "per month"
PerMonthSpans ==
    {i \in 1..Len(call_response.soup.price_wrapper.spans) :
        contains(call_response.soup.price_wrapper.spans[i], "per month")}

\* C7 as stated: with a value element and any span that contains "per month",
\* whatever the other spans and their order, the price is the trimmed value,
\* a space and the trimmed text of a "per month" span; without such a span it
\* is the trimmed value; without a value element it stays "Not Found".
C7_PriceUsesAnyPerMonthSpan ==
    (Returned /\ FetchedOk /\ call_response.soup.price_wrapper.found) =>
        LET value == call_response.soup.price_wrapper.price_value_tag
            spans == call_response.soup.price_wrapper.spans
        IN  /\ (value.found /\ PerMonthSpans # {}) =>
                  \E i \in PerMonthSpans :
                      Field("price")
                          = strip(value.text) \o << " " >> \o strip(spans[i])
            /\ (value.found /\ PerMonthSpans = {}) =>
                  Field("price") = strip(value.text)
            /\ ~value.found => Field("price") = << "Not Found" >>

\* C7 amended: the unit is read from the first span of the wrapper only.  If
\* that span contains "per month" the price is the trimmed value, a space and
\* the trimmed text of that span; if there is no span or the first one does
\* not contain "per month" the price is the trimmed value alone, also when a
\* later span contains "per month"; without a value element (or without the
\* wrapper) it stays "Not Found".
C7_PriceUsesFirstSpanOnly ==
    (Returned /\ FetchedOk) =>
        LET wrapper == call_response.soup.price_wrapper
            value == wrapper.price_value_tag
            spans == wrapper.spans
            unit_first == spans # <<>> /\ contains(spans[1], "per month")
        IN  /\ (wrapper.found /\ value.found /\ unit_first) =>
                  Field("price")
                      = strip(value.text) \o << " " >> \o strip(spans[1])
            /\ (wrapper.found /\ value.found /\ ~unit_first) =>
                  Field("price") = strip(value.text)
            /\ (~wrapper.found \/ ~value.found) =>
                  Field("price") = << "Not Found" >>

\* C7 witness: "per month" is in the second span only and the price is the
\* value alone
C7_Witness ==
    /\ Returned /\ FetchedOk
    /\ call_response.soup.price_wrapper.found
    /\ call_response.soup.price_wrapper.price_value_tag.text = << " ", "w", " " >>
    /\ call_response.soup.price_wrapper.spans = << << "from" >>, << "per month" >> >>
    /\ Field("price") = << "w" >>

\* the tokens of a text before its first comma
BeforeFirstComma(text) ==
    LET commas == {i \in 1..Len(text) : text[i] = ","}
    IN  IF commas = {} THEN text
        ELSE SubSeq(text, 1, (CHOOSE i \in commas : \A k \in commas : i <= k) - 1)

\* C8: with a stats container, a size element and a span nested in it, size
\* is the text of that span before its first comma, trimmed (the whole
\* trimmed text when it has no comma); otherwise size stays "Not Found"; and
\* rooms is read from its own element whether or not size was found.
C8_SizeIsTextBeforeFirstCommaTrimmed ==
    (Returned /\ FetchedOk) =>
        LET stats == call_response.soup.stats_container
            has_size == stats.found /\ stats.size_span.found
                            /\ stats.size_span.spans # <<>>
            has_rooms == stats.found /\ stats.rooms_span.found
                            /\ stats.rooms_span.spans # <<>>
        IN  /\ has_size =>
                  Field("size") = strip(BeforeFirstComma(stats.size_span.spans[1]))
            /\ ~has_size => Field("size") = << "Not Found" >>
            /\ has_rooms => Field("rooms") = strip(stats.rooms_span.spans[1])
            /\ ~has_rooms => Field("rooms") = << "Not Found" >>

\* C8 witness: the text "98 ," gives the size "98" on a page without a rooms
\* element
C8_Witness ==
    /\ Returned /\ FetchedOk
    /\ call_response.soup.stats_container.found
    /\ call_response.soup.stats_container.size_span.spans = << << "98", " ", "," >> >>
    /\ Field("size") = << "98" >>
    /\ ~call_response.soup.stats_container.rooms_span.found
    /\ Field("rooms") = << "Not Found" >>

\* C9: the address is the trimmed text of the data-testid span when that span
\* exists, whatever the basic div holds; else the trimmed text of the first
\* span of the basic div followed by " (fallback)"; else "Not Found".
C9_AddressPrefersPrimaryElement ==
    (Returned /\ FetchedOk) =>
        LET primary == call_response.soup.address_tag
            block == call_response.soup.basic_div
        IN  /\ primary.found => Field("address") = strip(primary.text)
            /\ (~primary.found /\ block.found /\ block.spans # <<>>) =>
                  Field("address") = strip(block.spans[1]) \o << " (fallback)" >>
            /\ (~primary.found /\ ~(block.found /\ block.spans # <<>>)) =>
                  Field("address") = << "Not Found" >>

\* C9 witness: both the primary span and a basic div with spans are present
C9_Witness ==
    /\ Returned /\ FetchedOk
    /\ call_response.soup.address_tag.found
    /\ call_response.soup.address_tag.text = << " ", "w" >>
    /\ call_response.soup.basic_div.spans = << << " ", "Berlin", " " >>, <<>> >>
    /\ Field("address") = << "w" >>

=============================================================================
